---- MODULE Spec2Model ----
(***************************************************************************)
(* A model of bot.py, the weekly pain-literature digest: the query builder,*)
(* the retry policy of the HTTP session, the summary stage (dedup and      *)
(* ranking), the metadata stage and the snippet extractor, the renderers,  *)
(* and the main pipeline.                                                  *)
(*                                                                         *)
(* Text is modelled as a sequence of one-character strings (or, for the    *)
(* query builder, of atomic pieces), so that strip, split, join, lower and *)
(* html.escape are computed, not assumed.                                  *)
(***************************************************************************)
EXTENDS Integers, Sequences, FiniteSets, TLC

VARIABLES
    pc,         \* position of the process / harness
    journals,   \* pubmed_query: argument journals
    keywords,   \* pubmed_query: argument keywords
    humans,     \* pubmed_query: argument humans
    term,       \* pubmed_query: the returned expression
    method,     \* retry policy: the verb of the call in flight
    total,      \* retry policy: Retry.total, the retries still allowed
    attempts,   \* retry policy: requests sent so far for this call
    cause,      \* retry policy: the outcome that led to the latest re-send
    last,       \* retry policy: the outcome of the latest request
    call,       \* retry policy: "pending", "returned" or "raised"
    response,   \* esummary: the entries of the "result" object, in order
    items,      \* esummary: the returned list
    article,    \* efetch_abstract_map: one PubmedArticle of the document
    entry,      \* the article's entry of the metadata map, if any
    label,      \* build_snippet: the returned label
    snip,       \* build_snippet: the returned text
    base_url,   \* ABSTRACTS_BASE_URL
    pmids,      \* __main__: the identifiers esearch returned
    meta_map,   \* __main__: the map efetch_abstract_map returned
    page,       \* abstracts.html as written by build_abstracts_page
    html_body,  \* __main__: build_html's result
    text_body,  \* __main__: build_text's result
    sent,       \* the message handed to send_email
    requests,   \* the requests sent to the index, in order
    failure     \* what ended the run with an unhandled exception

qvars == <<journals, keywords, humans, term>>
rvars == <<method, total, attempts, cause, last, call>>
svars == <<response, items>>
nvars == <<article, entry, label, snip>>
mvars == <<base_url, pmids, meta_map, page, html_body, text_body, sent, requests, failure>>
vars == <<pc, qvars, rvars, svars, nvars, mvars>>

NoValue == <<"<none>">>

(***************************************************************************)
(* Sequences and text                                                      *)
(***************************************************************************)
RECURSIVE SeqsUpTo(_, _)
SeqsUpTo(S, n) ==
    IF n = 0 THEN {<<>>}
    ELSE LET shorter == SeqsUpTo(S, n - 1)
         IN  shorter \cup {Append(s, x) : s \in shorter, x \in S}

\* sep.join(parts), by halves
RECURSIVE Join(_, _)
Join(sep, parts) ==
    IF parts = <<>> THEN <<>>
    ELSE IF Len(parts) = 1 THEN parts[1]
    ELSE LET h == Len(parts) \div 2
         IN  Join(sep, SubSeq(parts, 1, h)) \o sep \o Join(sep, SubSeq(parts, h + 1, Len(parts)))

IsSpace(c) == c \in {" ", "\n"}

RECURSIVE LStrip(_)
LStrip(s) == IF s # <<>> /\ IsSpace(Head(s)) THEN LStrip(Tail(s)) ELSE s

RECURSIVE RStrip(_)
RStrip(s) ==
    IF s # <<>> /\ IsSpace(s[Len(s)]) THEN RStrip(SubSeq(s, 1, Len(s) - 1)) ELSE s

\* str.strip()
Strip(s) == RStrip(LStrip(s))

(***************************************************************************)
(* Query construction                                                      *)
(***************************************************************************)
JournalTokens == {"Pain[ta]", "J Pain[ta]"}
KeywordTokens == {"Analgesia", "Injections"}
MaxTerms == 2

OrSep == <<" ", "OR", " ">>
HumansClause == <<" ", "AND", " ", "(", "humans[MeSH Terms]", ")">>

\* a token list as a list of one-piece strings
AsStrings(tokens) == [i \in DOMAIN tokens |-> <<tokens[i]>>]

pubmed_query(js, ks, h) ==
    LET j     == Join(OrSep, AsStrings(js))
        k     == IF ks # <<>> THEN Join(OrSep, AsStrings(ks)) ELSE <<>>
        core0 == IF j # <<>> THEN <<"(">> \o j \o <<")">> ELSE <<>>
        core1 == IF k # <<>>
                 THEN core0 \o <<" ", "AND", " ", "(">> \o k \o <<")">>
                 ELSE core0
        core2 == IF h THEN core1 \o HumansClause ELSE core1
    IN  Strip(core2)

QueryInit ==
    /\ journals \in SeqsUpTo(JournalTokens, MaxTerms)
    /\ keywords \in SeqsUpTo(KeywordTokens, MaxTerms)
    /\ humans \in BOOLEAN
    /\ term = NoValue

BuildQuery ==
    /\ pc = "query"
    /\ term' = pubmed_query(journals, keywords, humans)
    /\ pc' = "query_done"
    /\ UNCHANGED <<journals, keywords, humans, rvars, svars, nvars, mvars>>

QueryIdle == journals = <<>> /\ keywords = <<>> /\ humans = FALSE /\ term = NoValue

\* an AND that does not stand between a closed group and an opened one
DanglingAnd(q) ==
    \E i \in DOMAIN q :
        /\ q[i] = "AND"
        /\ ~ ( /\ i > 2 /\ i + 2 <= Len(q)
               /\ q[i - 1] = " " /\ q[i - 2] = ")"
               /\ q[i + 1] = " " /\ q[i + 2] = "(" )

EmptyGroup(q) == \E i \in DOMAIN q : q[i] = "(" /\ i < Len(q) /\ q[i + 1] = ")"

\* C9: pubmed_query never renders an empty group or a dangling AND, for every
\* combination of empty / non-empty journal list, keyword list and humans
\* flag; and for two non-empty lists with humans off the output is exactly
\* "(" OR-of-journals ") AND (" OR-of-keywords ")".
C9_QueryWellFormed ==
    pc = "query_done" =>
        /\ ~ EmptyGroup(term)
        /\ ~ DanglingAnd(term)
        /\ (journals # <<>> /\ keywords # <<>> /\ ~ humans) =>
              term = <<"(">> \o Join(OrSep, AsStrings(journals)) \o <<")">>
                     \o <<" ", "AND", " ">>
                     \o <<"(">> \o Join(OrSep, AsStrings(keywords)) \o <<")">>

(***************************************************************************)
(* HTTP session with retries                                               *)
(***************************************************************************)
RetryTotal == 5
status_forcelist == {429, 500, 502, 503, 504}
allowed_methods == {"GET", "POST"}
\* urllib3's Retry.RETRY_AFTER_STATUS_CODES, honoured by default
\* (respect_retry_after_header is not switched off by make_session)
RETRY_AFTER_STATUS_CODES == {413, 429, 503}

\* bot.py itself sends GET only; POST and PATCH exercise allowed_methods
Methods == {"GET", "POST", "PATCH"}
Statuses == {200, 404, 413, 429, 500, 502, 503, 504}
NoOutcome == [kind |-> "none", status |-> 0, retry_after |-> FALSE]
Outcomes ==
    [kind : {"response"}, status : Statuses, retry_after : BOOLEAN]
    \cup [kind : {"connect_error", "read_error"}, status : {0}, retry_after : {FALSE}]

\* Retry._is_method_retryable
IsMethodRetryable(m) == m \in allowed_methods

\* Retry.is_retry: is this response one to send the request again for?
IsRetry(m, o, t) ==
    /\ o.kind = "response"
    /\ IsMethodRetryable(m)
    /\ \/ o.status \in status_forcelist
       \/ t # 0 /\ o.retry_after /\ o.status \in RETRY_AFTER_STATUS_CODES

\* Retry.increment re-raises at once a read error of a verb it may not repeat;
\* a connection error means the request never reached the server
ErrorCounted(m, o) ==
    \/ o.kind = "connect_error"
    \/ o.kind = "read_error" /\ IsMethodRetryable(m)

\* one retry too many
IsExhausted_OffByOne(t) == t < 0 - 1

\* Retry.is_exhausted, after the decrement of increment()
IsExhausted(t) == t < 0

RetryInit ==
    /\ method \in Methods
    /\ total = RetryTotal
    /\ attempts = 0
    /\ cause = NoOutcome
    /\ last = NoOutcome
    /\ call = "pending"

RetryIdle ==
    /\ method = "GET" /\ total = RetryTotal /\ attempts = 0
    /\ cause = NoOutcome /\ last = NoOutcome /\ call = "idle"

\* one pass of urlopen: send the request, then return, raise or go round again
SendRequest ==
    /\ pc = "session" /\ call = "pending"
    /\ \E o \in Outcomes :
          /\ attempts' = attempts + 1
          /\ last' = o
          /\ IF o.kind = "response" /\ ~ IsRetry(method, o, total)
             THEN call' = "returned" /\ UNCHANGED <<total, cause>>
             ELSE IF o.kind # "response" /\ ~ ErrorCounted(method, o)
             THEN call' = "raised" /\ UNCHANGED <<total, cause>>
             ELSE /\ total' = total - 1
                  /\ IF IsExhausted(total - 1)
                     THEN call' = "raised" /\ UNCHANGED cause
                     ELSE call' = "pending" /\ cause' = o
    /\ UNCHANGED <<pc, method, qvars, svars, nvars, mvars>>

(***************************************************************************)
(* Summary stage: records, dedup, ranking                                  *)
(***************************************************************************)
MaxRecords == 3

\* the keys of the "result" object after "uids", by position
Pmids == <<"101", "102", "103", "104", "105">>

Dois == { <<>>, <<"1", "0", "/", "a">>, <<"1", "0", "/", "A">>, <<"1", "0", "/", "b">> }

\* sortpubdate / pubdate strings, as tokens: two dates of the format, the
\* format's smallest date, and the date with a time of day after it
Dates == { <<"2024", "/", "03", "/", "01">>,
           <<"2024", "/", "03", "/", "10">>,
           <<"0001", "/", "01", "/", "01">>,
           <<"2024", "/", "03", "/", "10", " ", "00:00">> }

\* a value of the "result" object: a record (dict is TRUE) or anything else
Entries ==
    [dict : {TRUE}, doi : Dois, date : Dates, title : {<<"T">>}, journal : {<<"J">>}]
    \cup [dict : {FALSE}, doi : {<<>>}, date : {<<>>}, title : {<<>>}, journal : {<<>>}]

UidsEntry == [pid |-> "uids", dict |-> FALSE, doi |-> <<>>, date |-> <<>>,
              title |-> <<>>, journal |-> <<>>]

\* the "result" object: "uids" first, then one value per pmid
ResultOf(es) ==
    <<UidsEntry>> \o
    [i \in DOMAIN es |-> [pid |-> Pmids[i], dict |-> es[i].dict,
                          doi |-> es[i].doi, date |-> es[i].date,
                          title |-> es[i].title, journal |-> es[i].journal]]

LowerChar(c) == IF c = "A" THEN "a" ELSE IF c = "B" THEN "b" ELSE c
\* str.lower()
Lower(str) == [i \in DOMAIN str |-> LowerChar(str[i])]

ItemOf(e) ==
    [pmid |-> e.pid, title |-> Strip(e.title), journal |-> e.journal,
     date |-> e.date, doi |-> e.doi,
     url |-> <<"https://pubmed.ncbi.nlm.nih.gov/", e.pid, "/">>]

\* a key that compares DOIs as they are written
DedupKey_CaseSensitive(it) ==
    IF it.doi # <<>> THEN <<"doi", it.doi>> ELSE <<"pmid", <<it.pmid>>>>

DedupKey(it) ==
    IF it.doi # <<>> THEN <<"doi", Lower(it.doi)>> ELSE <<"pmid", <<it.pmid>>>>

\* dedup = {}; for it in items: if key not in dedup: dedup[key] = it
RECURSIVE Dedup(_, _)
Dedup(its, seen) ==
    IF its = <<>> THEN <<>>
    ELSE IF DedupKey(Head(its)) \in seen THEN Dedup(Tail(its), seen)
    ELSE <<Head(its)>> \o Dedup(Tail(its), seen \cup {DedupKey(Head(its))})

NumOf(tok) ==
    CASE tok = "0001" -> 1
      [] tok = "2024" -> 2024
      [] tok = "01" -> 1
      [] tok = "03" -> 3
      [] tok = "10" -> 10
      [] OTHER -> 0 - 1

\* days are counted as if every month had 31: the order of dates is kept
Ordinal(y, m, d) == (y * 12 + (m - 1)) * 31 + (d - 1)
DatetimeMin == Ordinal(1, 1, 1)

\* strptime(s, "%Y/%m/%d") succeeds
Parses(s) ==
    /\ Len(s) = 5 /\ s[2] = "/" /\ s[4] = "/"
    /\ NumOf(s[1]) \in 1..9999 /\ NumOf(s[3]) \in 1..12 /\ NumOf(s[5]) \in 1..31

parse_sortdate(s) ==
    IF Parses(s) THEN Ordinal(NumOf(s[1]), NumOf(s[3]), NumOf(s[5])) ELSE DatetimeMin

\* list.sort(key=..., reverse=True): descending, equal keys in their old order
RECURSIVE InsertDesc(_, _)
InsertDesc(sorted, it) ==
    IF sorted = <<>> THEN <<it>>
    ELSE IF parse_sortdate(Head(sorted).date) >= parse_sortdate(it.date)
    THEN <<Head(sorted)>> \o InsertDesc(Tail(sorted), it)
    ELSE <<it>> \o sorted

RECURSIVE SortDesc(_, _)
SortDesc(its, acc) ==
    IF its = <<>> THEN acc ELSE SortDesc(Tail(its), InsertDesc(acc, Head(its)))

\* the loop over result.items(): v.get fails on a value that is no dict
Raises(result) == \E i \in DOMAIN result : result[i].pid # "uids" /\ ~ result[i].dict

Records(result) == SelectSeq(result, LAMBDA e : e.pid # "uids")

esummary(result) ==
    LET its == [i \in DOMAIN Records(result) |-> ItemOf(Records(result)[i])]
    IN  SortDesc(Dedup(its, {}), <<>>)

SummaryInit ==
    /\ response \in {ResultOf(es) : es \in SeqsUpTo(Entries, MaxRecords)}
    /\ items = NoValue

SummaryIdle == response = <<>> /\ items = NoValue

Summarise ==
    /\ pc = "esummary"
    /\ IF Raises(response)
       THEN pc' = "esummary_raised" /\ UNCHANGED items
       ELSE pc' = "esummary_done" /\ items' = esummary(response)
    /\ UNCHANGED <<response, qvars, rvars, nvars, mvars>>

(***************************************************************************)
(* Metadata stage and snippet extraction                                   *)
(***************************************************************************)
SNIPPET_MAX_WORDS == 70
MaxSections == 2
\* the longest section text has this many words more than SNIPPET_MAX_WORDS
MaxExtraWords == 1

None == <<"<None>">>
NoEntry == [abstract |-> <<"<missing>">>, conclusion |-> <<"<missing>">>]
\* the character U+2026
Ellipsis == "..."
Terminals == {".", "!", "?"}

\* n words, "a" and "b" in turn, one space between them
LongText(n) ==
    [i \in 1..(2 * n - 1) |->
        IF i % 2 = 0 THEN " " ELSE IF ((i + 1) \div 2) % 2 = 1 THEN "a" ELSE "b"]

\* the text of an AbstractText element, as itertext() yields it
SectionTexts ==
    { <<"a", ".", " ", "b", ".", " ", "c", ".">>,
      <<"a", " ", "b">>,
      <<" ", "c", "!", " ", " ", "a", ".", "b", "?", "\n">>,
      <<" ">> }
    \cup {LongText(n) : n \in SNIPPET_MAX_WORDS..(SNIPPET_MAX_WORDS + MaxExtraWords)}

\* the Label attribute (NlmCategory stands in when there is no Label)
SectionLabels == {"", "Conclusions"}

\* "conclusion" in label.strip().lower()
IsConclusionLabel(l) == l \in {"Conclusions", "CONCLUSIONS", "conclusion"}

Sections == [label : SectionLabels, text : SectionTexts]
\* an article without a PMID is skipped whatever its sections are
Articles ==
    [has_pmid : {TRUE}, sections : SeqsUpTo(Sections, MaxSections)]
    \cup [has_pmid : {FALSE}, sections : SeqsUpTo(Sections, 1)]

Indices(s) == [i \in 1..Len(s) |-> i]

\* str.split(): the maximal runs of characters that are not whitespace
Words(s) ==
    LET starts == SelectSeq(Indices(s), LAMBDA i :
                      ~ IsSpace(s[i]) /\ (i = 1 \/ IsSpace(s[i - 1])))
        ends   == SelectSeq(Indices(s), LAMBDA i :
                      ~ IsSpace(s[i]) /\ (i = Len(s) \/ IsSpace(s[i + 1])))
    IN  [k \in DOMAIN starts |-> SubSeq(s, starts[k], ends[k])]

\* re.split(r'(?<=[.!?])\s+', s): cut out each run of whitespace that
\* follows a sentence terminal
ReSplit(s) ==
    LET cutFrom == SelectSeq(Indices(s), LAMBDA r :
                       IsSpace(s[r]) /\ r > 1 /\ s[r - 1] \in Terminals)
        \* the last character of the run of whitespace that starts at r
        runEnd(r) == IF \A k \in r..Len(s) : IsSpace(s[k]) THEN Len(s)
                     ELSE (CHOOSE k \in r..Len(s) :
                              ~ IsSpace(s[k]) /\ \A j \in r..(k - 1) : IsSpace(s[j])) - 1
        cutTo   == [k \in DOMAIN cutFrom |-> runEnd(cutFrom[k])]
        starts  == <<1>> \o [k \in DOMAIN cutTo |-> cutTo[k] + 1]
        ends    == [k \in DOMAIN cutFrom |-> cutFrom[k] - 1] \o <<Len(s)>>
    IN  [k \in DOMAIN starts |-> SubSeq(s, starts[k], ends[k])]

LastN(parts, n) ==
    IF Len(parts) <= n THEN parts ELSE SubSeq(parts, Len(parts) - n + 1, Len(parts))

last_sentences(text, n) ==
    LET parts == SelectSeq(ReSplit(Strip(text)), LAMBDA part : part # <<>>)
    IN  IF parts = <<>> THEN <<>> ELSE Strip(Join(<<" ">>, LastN(parts, n)))

\* cuts one word late
trim_words_OffByOne(text, max_words) ==
    LET words == Words(text)
    IN  IF Len(words) <= max_words + 1 THEN text
        ELSE Join(<<" ">>, SubSeq(words, 1, max_words + 1)) \o <<Ellipsis>>

trim_words(text, max_words) ==
    LET words == Words(text)
    IN  IF Len(words) <= max_words THEN text
        ELSE Join(<<" ">>, SubSeq(words, 1, max_words)) \o <<Ellipsis>>

\* value or ""
OrEmpty(v) == IF v = None THEN <<>> ELSE v

\* prefers the abstract's tail to the conclusion
build_snippet_AbstractFirst(e) ==
    IF e = NoEntry THEN <<None, None>>
    ELSE LET abstract == Strip(OrEmpty(e.abstract))
             concl    == Strip(OrEmpty(e.conclusion))
         IN  IF abstract # <<>>
             THEN LET tail2    == last_sentences(abstract, 2)
                      fallback == IF tail2 # <<>> THEN tail2 ELSE abstract
                  IN  <<"From abstract", trim_words(fallback, SNIPPET_MAX_WORDS)>>
             ELSE IF concl # <<>>
             THEN <<"Conclusion", trim_words(concl, SNIPPET_MAX_WORDS)>>
             ELSE <<None, None>>

build_snippet(e) ==
    IF e = NoEntry THEN <<None, None>>
    ELSE LET abstract == Strip(OrEmpty(e.abstract))
             concl    == Strip(OrEmpty(e.conclusion))
         IN  IF concl # <<>>
             THEN <<"Conclusion", trim_words(concl, SNIPPET_MAX_WORDS)>>
             ELSE IF abstract # <<>>
             THEN LET tail2    == last_sentences(abstract, 2)
                      fallback == IF tail2 # <<>> THEN tail2 ELSE abstract
                  IN  <<"From abstract", trim_words(fallback, SNIPPET_MAX_WORDS)>>
             ELSE <<None, None>>

\* the loop over AbstractText: the stripped texts that are not empty
Stripped(secs) ==
    SelectSeq([i \in DOMAIN secs |-> [label |-> secs[i].label, text |-> Strip(secs[i].text)]],
              LAMBDA sec : sec.text # <<>>)

TextsOf(secs) == [i \in DOMAIN secs |-> secs[i].text]

\* the entry efetch_abstract_map stores for an article that has a PMID
EntryOf(art) ==
    LET abstract_texts   == TextsOf(Stripped(art.sections))
        conclusion_texts == TextsOf(SelectSeq(Stripped(art.sections),
                                              LAMBDA sec : IsConclusionLabel(sec.label)))
    IN  [abstract   |-> IF abstract_texts # <<>>
                        THEN Strip(Join(<<" ">>, abstract_texts)) ELSE None,
         conclusion |-> IF conclusion_texts # <<>>
                        THEN Strip(Join(<<" ">>, conclusion_texts)) ELSE None]

SnippetInit ==
    /\ article \in Articles
    /\ entry = NoEntry
    /\ label = None
    /\ snip = None

SnippetIdle ==
    /\ article = [has_pmid |-> FALSE, sections |-> <<>>]
    /\ entry = NoEntry /\ label = None /\ snip = None

\* efetch_abstract_map, for one article: no entry without a PMID
Extract ==
    /\ pc = "efetch"
    /\ entry' = IF article.has_pmid THEN EntryOf(article) ELSE NoEntry
    /\ pc' = "snippet"
    /\ UNCHANGED <<article, label, snip, qvars, rvars, svars, mvars>>

\* build_snippet(meta_map.get(pmid))
Snippet ==
    /\ pc = "snippet"
    /\ LET result == build_snippet(entry)
       IN  label' = result[1] /\ snip' = result[2]
    /\ pc' = "snippet_done"
    /\ UNCHANGED <<article, entry, qvars, rvars, svars, mvars>>

(***************************************************************************)
(* Rendering                                                               *)
(***************************************************************************)
\* html.escape(c, quote=True), one character
EscapeChar(c) ==
    CASE c = "&" -> <<"&", "a", "m", "p", ";">>
      [] c = "<" -> <<"&", "l", "t", ";">>
      [] c = ">" -> <<"&", "g", "t", ";">>
      [] c = "\"" -> <<"&", "q", "u", "o", "t", ";">>
      [] c = "'" -> <<"&", "#", "x", "2", "7", ";">>
      [] OTHER -> <<c>>

HtmlEscape(str) == Join(<<>>, [i \in DOMAIN str |-> EscapeChar(str[i])])

\* an output is a sequence of pieces: template text (abridged, with "-" for
\* the dash), or a field with the value it came from (raw) and the text
\* written for it
Lit(t) == [slot |-> "lit", raw |-> <<t>>, text |-> <<t>>]
Escaped(slot, v) == [slot |-> slot, raw |-> v, text |-> HtmlEscape(v)]
Embedded(slot, v) == [slot |-> slot, raw |-> v, text |-> v]

\* the characters an output consists of
TextOf(pieces) == Join(<<>>, [i \in DOMAIN pieces |-> pieces[i].text])

\* meta_map.get(pmid)
MetaGet(mm, pmid) == IF pmid \in DOMAIN mm THEN mm[pmid] ELSE NoEntry

\* one <section> of build_abstracts_page
PageRow(it, mm) ==
    LET has      == MetaGet(mm, it.pmid)
        abstract == IF has # NoEntry /\ has.abstract \notin {None, <<>>}
                    THEN has.abstract
                    ELSE <<"(No abstract available)">>
    IN  <<Lit("<section id=\""), Embedded("pmid", <<it.pmid>>), Lit("\"><h3>"),
          Escaped("title", it.title), Lit("</h3><div><em>"),
          Escaped("journal", it.journal), Lit("</em> ("),
          Escaped("date", it.date),
          Lit(") | PMID: <a href=\"https://pubmed.ncbi.nlm.nih.gov/"),
          Embedded("pmid", <<it.pmid>>), Lit("/\">"),
          Embedded("pmid", <<it.pmid>>), Lit("</a></div>")>>
        \o (IF it.doi # <<>>
            THEN <<Lit("<div>DOI: <a href=\"https://doi.org/"), Escaped("doi", it.doi),
                   Lit("\">"), Escaped("doi", it.doi), Lit("</a></div>")>>
            ELSE <<>>)
        \o <<Lit("<h4>Abstract</h4><p>"), Escaped("abstract", abstract),
             Lit("</p><div><a href=\"#top\">Back to top</a></div></section>")>>

build_abstracts_page(its, mm, mindate, maxdate) ==
    <<Lit("<!doctype html>...<p>Coverage (EDAT): "), Embedded("window", <<mindate>>),
      Lit(" to "), Embedded("window", <<maxdate>>), Lit("</p>")>>
    \o (IF its # <<>>
        THEN Join(<<Lit(" ")>>, [i \in DOMAIN its |-> PageRow(its[i], mm)])
        ELSE <<Lit("<p>No abstracts this week.</p>")>>)
    \o <<Lit("</body></html>")>>

\* one <li> of build_html
HtmlRow(it, mm, base) ==
    LET snippet == build_snippet(MetaGet(mm, it.pmid))
    IN  <<Lit("<li><a href=\""), Embedded("url", it.url), Lit("\">"),
          Escaped("title", it.title), Lit("</a> - <em>"),
          Escaped("journal", it.journal), Lit("</em> ("),
          Escaped("date", it.date), Lit(")")>>
        \o (IF it.doi # <<>>
            THEN <<Lit(" | DOI: <a href=\"https://doi.org/"), Embedded("doi", it.doi),
                   Lit("\">"), Escaped("doi", it.doi), Lit("</a>")>>
            ELSE <<>>)
        \o (IF base # ""
            THEN <<Lit(" <a href=\""), Embedded("base_url", <<base>>),
                   Lit("/abstracts.html#"), Embedded("pmid", <<it.pmid>>),
                   Lit("\">Full abstract</a>")>>
            ELSE <<>>)
        \o (IF snippet[2] \notin {None, <<>>}
            THEN <<Lit("<div><strong>"), Escaped("label", <<snippet[1]>>),
                   Lit(":</strong> "), Escaped("snippet", snippet[2]), Lit("</div>")>>
            ELSE <<>>)
        \o <<Lit("</li>")>>

\* renders the header and an empty list when there is no item
build_html_NoEmptyCase(its, mindate, maxdate, mm, base) ==
    <<Lit("<h2>Pain Literature Weekly</h2><p>Coverage (EDAT): "),
      Embedded("window", <<mindate>>), Lit(" to "), Embedded("window", <<maxdate>>),
      Lit("; journals: "), Embedded("journals", <<"JOURNALS">>), Lit("</p><ol>")>>
    \o Join(<<>>, [i \in DOMAIN its |-> HtmlRow(its[i], mm, base)])
    \o <<Lit("</ol>")>>

build_html(its, mindate, maxdate, mm, base) ==
    IF its = <<>>
    THEN <<Lit("<p>No new items between "), Embedded("window", <<mindate>>),
           Lit(" and "), Embedded("window", <<maxdate>>), Lit(".</p>")>>
    ELSE <<Lit("<h2>Pain Literature Weekly</h2><p>Coverage (EDAT): "),
           Embedded("window", <<mindate>>), Lit(" to "), Embedded("window", <<maxdate>>),
           Lit("; journals: "), Embedded("journals", <<"JOURNALS">>), Lit("</p><ol>")>>
         \o Join(<<>>, [i \in DOMAIN its |-> HtmlRow(its[i], mm, base)])
         \o <<Lit("</ol>")>>

\* one line of build_text, with its continuation line when there is a snippet
TextRow(it, mm, base) ==
    LET snippet == build_snippet(MetaGet(mm, it.pmid))
    IN  <<Lit("- "), Embedded("title", it.title), Lit(" - "),
          Embedded("journal", it.journal), Lit(" ("), Embedded("date", it.date),
          Lit(") "), Embedded("url", it.url)>>
        \o (IF it.doi # <<>>
            THEN <<Lit(" | DOI: https://doi.org/"), Embedded("doi", it.doi)>> ELSE <<>>)
        \o (IF base # ""
            THEN <<Lit(" | Full abstract: "), Embedded("base_url", <<base>>),
                   Lit("/abstracts.html#"), Embedded("pmid", <<it.pmid>>)>>
            ELSE <<>>)
        \o (IF snippet[2] \notin {None, <<>>}
            THEN <<Lit("\n  "), Embedded("label", <<snippet[1]>>), Lit(": "),
                   Embedded("snippet", snippet[2])>>
            ELSE <<>>)

build_text(its, mindate, maxdate, mm, base) ==
    IF its = <<>>
    THEN <<Lit("No new items between "), Embedded("window", <<mindate>>),
           Lit(" and "), Embedded("window", <<maxdate>>), Lit(".")>>
    ELSE Join(<<Lit("\n")>>,
              <<  <<Lit("Pain Literature Weekly")>>,
                  <<Lit("Coverage (EDAT): "), Embedded("window", <<mindate>>),
                    Lit(" to "), Embedded("window", <<maxdate>>)>>  >>
              \o [i \in DOMAIN its |-> TextRow(its[i], mm, base)])

(***************************************************************************)
(* Main                                                                    *)
(***************************************************************************)
MaxIds == 2
\* for i in range(0, len(pmids), BATCH)
BATCH == 100

\* last_7d_window_ist(), for a run of 2024-03-15
MinDate == "2024/03/08"
MaxDate == "2024/03/15"

\* the values esummary's response may hold for a pmid in a run
MainEntries ==
    { [dict |-> TRUE, doi |-> <<>>, date |-> <<"2024", "/", "03", "/", "01">>,
       title |-> <<"T">>, journal |-> <<"J">>],
      [dict |-> TRUE, doi |-> <<"1", "0", "/", "<", "a", ">">>,
       date |-> <<"2024", "/", "03", "/", "10">>,
       title |-> <<"R", "&", "D">>, journal |-> <<"J">>],
      [dict |-> FALSE, doi |-> <<>>, date |-> <<>>, title |-> <<>>, journal |-> <<>>] }

\* the PubmedArticle elements efetch's document may hold for a pmid
MainArticles ==
    { [has_pmid |-> FALSE, sections |-> <<>>],
      [has_pmid |-> TRUE,
       sections |-> << [label |-> "", text |-> <<"a", "<", "b", ".", " ", "c", ".">>] >>],
      [has_pmid |-> TRUE,
       sections |-> << [label |-> "Conclusions", text |-> <<"x", " ", "&", " ", "y">>] >>] }

NoMessage == [subject |-> <<>>, text |-> <<>>, html |-> <<>>]

\* the chunks pmids[i:i+BATCH] of efetch_abstract_map
Chunks(ids) ==
    [c \in 1..((Len(ids) + BATCH - 1) \div BATCH) |->
        SubSeq(ids, (c - 1) * BATCH + 1,
               IF c * BATCH < Len(ids) THEN c * BATCH ELSE Len(ids))]

ItemPmids(its) == [i \in DOMAIN its |-> its[i].pmid]

\* out[pid] for every article of the document that has a PMID
MetaOf(ids, doc) ==
    [pid \in {ids[i] : i \in {j \in DOMAIN ids : doc[j].has_pmid}} |->
        EntryOf(doc[CHOOSE i \in DOMAIN ids : ids[i] = pid])]

MainInit ==
    /\ base_url \in {"", "https://user.github.io/repo"}
    /\ pmids = <<>>
    /\ response = <<>>
    /\ items = <<>>
    /\ meta_map = <<>>
    /\ page = <<>>
    /\ html_body = <<>>
    /\ text_body = <<>>
    /\ sent = NoMessage
    /\ requests = <<>>
    /\ failure = "none"

MainIdle ==
    /\ base_url = "" /\ pmids = <<>> /\ meta_map = <<>> /\ page = <<>>
    /\ html_body = <<>> /\ text_body = <<>> /\ sent = NoMessage
    /\ requests = <<>> /\ failure = "none"

\* an exception nothing catches ends the run
Crash(why) == pc' = "crashed" /\ failure' = why

\* pmids = esearch(term, mindate, maxdate)
Search ==
    /\ pc = "esearch"
    /\ requests' = Append(requests, [call |-> "esearch", ids |-> <<>>])
    /\ \/ /\ Crash("esearch failed")
          /\ UNCHANGED pmids
       \/ /\ \E n \in 0..MaxIds : pmids' = SubSeq(Pmids, 1, n)
          /\ pc' = "esummary" /\ UNCHANGED failure
    /\ UNCHANGED <<base_url, response, items, meta_map, page, html_body, text_body, sent>>
    /\ UNCHANGED <<qvars, rvars, nvars>>

\* items = esummary(pmids)
Summary ==
    /\ pc = "esummary"
    /\ IF pmids = <<>>
       THEN /\ items' = <<>> /\ pc' = "efetch"
            /\ UNCHANGED <<response, requests, failure>>
       ELSE /\ requests' = Append(requests, [call |-> "esummary", ids |-> pmids])
            /\ \/ /\ Crash("esummary failed")
                  /\ UNCHANGED <<response, items>>
               \/ \E es \in [DOMAIN pmids -> MainEntries] :
                    /\ response' = ResultOf(es)
                    /\ IF Raises(ResultOf(es))
                       THEN Crash("malformed record") /\ UNCHANGED items
                       ELSE /\ items' = esummary(ResultOf(es))
                            /\ pc' = "efetch" /\ UNCHANGED failure
    /\ UNCHANGED <<base_url, pmids, meta_map, page, html_body, text_body, sent>>
    /\ UNCHANGED <<qvars, rvars, nvars>>

\* meta_map = efetch_abstract_map([it["pmid"] for it in items]); the model's
\* lists fit in one chunk
Fetch ==
    /\ pc = "efetch"
    /\ LET ids == ItemPmids(items)
       IN  IF ids = <<>>
           THEN /\ meta_map' = <<>> /\ pc' = "page"
                /\ UNCHANGED <<requests, failure>>
           ELSE /\ requests' = requests \o
                       [c \in DOMAIN Chunks(ids) |-> [call |-> "efetch", ids |-> Chunks(ids)[c]]]
                /\ \/ /\ Crash("efetch failed")
                      /\ UNCHANGED meta_map
                   \/ /\ Crash("malformed document")
                      /\ UNCHANGED meta_map
                   \/ \E doc \in [DOMAIN ids -> MainArticles] :
                        /\ meta_map' = MetaOf(ids, doc)
                        /\ pc' = "page" /\ UNCHANGED failure
    /\ UNCHANGED <<base_url, pmids, response, items, page, html_body, text_body, sent>>
    /\ UNCHANGED <<qvars, rvars, nvars>>

\* if ABSTRACTS_BASE_URL: build_abstracts_page(...)
WritePage ==
    /\ pc = "page"
    /\ page' = IF base_url # ""
               THEN build_abstracts_page(items, meta_map, MinDate, MaxDate)
               ELSE page
    /\ pc' = "render"
    /\ UNCHANGED <<base_url, pmids, response, items, meta_map, html_body, text_body,
                   sent, requests, failure>>
    /\ UNCHANGED <<qvars, rvars, nvars>>

\* html_body = build_html(...); text_body = build_text(...)
BuildBodies ==
    /\ pc = "render"
    /\ html_body' = build_html(items, MinDate, MaxDate, meta_map, base_url)
    /\ text_body' = build_text(items, MinDate, MaxDate, meta_map, base_url)
    /\ pc' = "send"
    /\ UNCHANGED <<base_url, pmids, response, items, meta_map, page, sent, requests, failure>>
    /\ UNCHANGED <<qvars, rvars, nvars>>

\* send_email(html_body, text_body, subject)
Send ==
    /\ pc = "send"
    /\ \/ /\ Crash("send_email failed")
          /\ UNCHANGED sent
       \/ /\ sent' = [subject |-> <<"Pain Literature Weekly - ", MinDate, " to ", MaxDate>>,
                      text |-> text_body, html |-> html_body]
          /\ pc' = "done" /\ UNCHANGED failure
    /\ UNCHANGED <<base_url, pmids, response, items, meta_map, page, html_body, text_body,
                   requests>>
    /\ UNCHANGED <<qvars, rvars, nvars>>

InitQuery == pc = "query" /\ QueryInit /\ RetryIdle /\ SummaryIdle /\ SnippetIdle /\ MainIdle
NextQuery == BuildQuery
SpecQuery == InitQuery /\ [][NextQuery]_vars

InitRetry == pc = "session" /\ QueryIdle /\ RetryInit /\ SummaryIdle /\ SnippetIdle /\ MainIdle
NextRetry == SendRequest
SpecRetry == InitRetry /\ [][NextRetry]_vars

InitSummary == pc = "esummary" /\ QueryIdle /\ RetryIdle /\ SummaryInit /\ SnippetIdle /\ MainIdle
NextSummary == Summarise
SpecSummary == InitSummary /\ [][NextSummary]_vars

InitSnippet == pc = "efetch" /\ QueryIdle /\ RetryIdle /\ SummaryIdle /\ SnippetInit /\ MainIdle
NextSnippet == Extract \/ Snippet
SpecSnippet == InitSnippet /\ [][NextSnippet]_vars

Init == pc = "esearch" /\ QueryIdle /\ RetryIdle /\ SnippetIdle /\ MainInit
Next ==
    \/ Search
    \/ Summary
    \/ Fetch
    \/ WritePage
    \/ BuildBodies
    \/ Send
Spec == Init /\ [][Next]_vars

ConnectionFailure(o) == o.kind \in {"connect_error", "read_error"}

\* C5 as stated: at most 5 attempts in total; a further attempt only after a
\* status in {429,500,502,503,504} or a connection failure; a verb that is
\* not idempotent and not declared retriable is never sent again.
C5_AtMostFiveAttempts ==
    /\ attempts <= 5
    /\ attempts > 1 =>
          \/ cause.kind = "response" /\ cause.status \in {429, 500, 502, 503, 504}
          \/ ConnectionFailure(cause)
    /\ (method = "PATCH") => attempts <= 1

\* C5 amended: at most 6 attempts in total (the first and 5 retries); a
\* further attempt only after a status in {429,500,502,503,504}, a 413, 429
\* or 503 carrying Retry-After, or a connection or read failure; a verb
\* outside {GET, POST} is sent again only after a failure to connect.
C5_AtMostSixAttempts ==
    /\ attempts <= 6
    /\ attempts > 1 =>
          \/ cause.kind = "response" /\ cause.status \in {429, 500, 502, 503, 504}
          \/ cause.kind = "response" /\ cause.retry_after
               /\ cause.status \in {413, 429, 503}
          \/ ConnectionFailure(cause)
    /\ (attempts > 1 /\ method \notin {"GET", "POST"}) => cause.kind = "connect_error"

C5_Witness ==
    /\ pc = "session" /\ method = "GET" /\ attempts = 6 /\ call = "raised"
    /\ last.kind = "response" /\ last.status = 503

\* the records of the response, in its order, as the items they become
Seen == [i \in DOMAIN Records(response) |-> ItemOf(Records(response)[i])]

KeyOf(it) == IF it.doi # <<>> THEN <<"doi", Lower(it.doi)>> ELSE <<"pmid", <<it.pmid>>>>

\* position in the response of the first record that has the key k
FirstWith(k) == CHOOSE i \in DOMAIN Seen :
                    KeyOf(Seen[i]) = k /\ \A j \in 1..(i - 1) : KeyOf(Seen[j]) # k

\* position in the response of a returned item
PosOf(it) == CHOOSE i \in DOMAIN Seen : Seen[i] = it

\* C1: the list esummary returns holds no two items with the same dedup key
\* (lowercased DOI, else PMID), and for every key of the response the item
\* kept is the first record of the response with that key.
C1_DedupFirstSeen ==
    pc = "esummary_done" =>
        /\ \A i, j \in DOMAIN items : i # j => KeyOf(items[i]) # KeyOf(items[j])
        /\ \A n \in DOMAIN Seen :
              \E i \in DOMAIN items :
                  /\ KeyOf(items[i]) = KeyOf(Seen[n])
                  /\ items[i] = Seen[FirstWith(KeyOf(Seen[n]))]

C1_Witness ==
    /\ pc = "esummary_done"
    /\ \E m, n \in DOMAIN Seen :
          /\ m < n /\ Seen[m].doi # Seen[n].doi
          /\ Lower(Seen[m].doi) = Lower(Seen[n].doi)
          /\ \E i \in DOMAIN items : items[i] = Seen[m]
          /\ \A i \in DOMAIN items : items[i] # Seen[n]

\* C2: the returned list is in descending order of the parsed date; every
\* item whose date does not parse comes after every item whose date parses;
\* items of equal sort date keep the order they had after dedup.
C2_SortedUnparsableLast ==
    pc = "esummary_done" =>
        \A i, j \in DOMAIN items : i < j =>
            /\ parse_sortdate(items[i].date) >= parse_sortdate(items[j].date)
            /\ ~ (~ Parses(items[i].date) /\ Parses(items[j].date))
            /\ parse_sortdate(items[i].date) = parse_sortdate(items[j].date)
                  => PosOf(items[i]) < PosOf(items[j])

\* C7: a value of the result that is no record is skipped, and every
\* well-formed record of the same response is still returned (up to dedup).
C7_MalformedSkipped ==
    (/\ pc \in {"esummary_done", "esummary_raised"}
     /\ Raises(response)
     /\ \E n \in DOMAIN Seen : Records(response)[n].dict) =>
        /\ pc = "esummary_done"
        /\ \A n \in DOMAIN Seen :
              Records(response)[n].dict =>
                  \E i \in DOMAIN items : KeyOf(items[i]) = KeyOf(Seen[n])

HasConclusion == entry # NoEntry /\ entry.conclusion \notin {None, <<>>}
HasAbstract == entry # NoEntry /\ entry.abstract \notin {None, <<>>}

\* the last two sentences of a text, one space between them
LastTwoSentences(text) ==
    LET parts == ReSplit(text)
    IN  IF Len(parts) = 1 THEN parts[1]
        ELSE parts[Len(parts) - 1] \o <<" ">> \o parts[Len(parts)]

\* the text the snippet is cut from
SnippetSource ==
    IF HasConclusion THEN entry.conclusion ELSE LastTwoSentences(entry.abstract)

\* a text cut to its first n words, with the ellipsis marker when it was longer
CutTo(text, n) ==
    IF Len(Words(text)) <= n THEN text
    ELSE Join(<<" ">>, [i \in 1..n |-> Words(text)[i]]) \o <<"...">>

\* C3: a conclusion extract, when there is one, gives the label "Conclusion"
\* and a text built from it; else an abstract gives "From abstract" and a text
\* built from its last two sentences; else (no entry, or neither field) the
\* result is (None, None). "From abstract" never comes with a conclusion.
C3_SnippetPriority ==
    pc = "snippet_done" =>
        /\ HasConclusion => label = "Conclusion" /\ snip = CutTo(entry.conclusion, 70)
        /\ (~ HasConclusion /\ HasAbstract) =>
              label = "From abstract" /\ snip = CutTo(LastTwoSentences(entry.abstract), 70)
        /\ (~ HasConclusion /\ ~ HasAbstract) => label = None /\ snip = None
        /\ label = "From abstract" => ~ HasConclusion

C3_Witness ==
    /\ pc = "snippet_done"
    /\ article.has_pmid
    /\ Len(article.sections) = 2
    /\ article.sections[1].label = ""
    /\ article.sections[1].text = <<"a", ".", " ", "b", ".", " ", "c", ".">>
    /\ article.sections[2].label = "Conclusions"
    /\ article.sections[2].text = <<"a", " ", "b">>
    /\ label = "Conclusion" /\ snip = <<"a", " ", "b">>

\* C10: the snippet is its source text unchanged when that has at most 70
\* words, and otherwise exactly the first 70 words of it, in order, followed
\* by the ellipsis marker; so it has at most 70 words, each one a word of the
\* fetched abstract.
C10_TrimWords ==
    (pc = "snippet_done" /\ snip # None) =>
        LET source == SnippetSource
            src    == Words(source)
            body   == IF Len(src) <= 70 THEN snip ELSE SubSeq(snip, 1, Len(snip) - 1)
            kept   == Words(body)
            whole  == Words(entry.abstract)
        IN  /\ Len(src) <= 70 => snip = source
            /\ Len(src) > 70 =>
                  /\ snip[Len(snip)] = "..."
                  /\ kept = SubSeq(src, 1, 70)
            /\ Len(Words(snip)) <= 70
            /\ {kept[i] : i \in DOMAIN kept} \subseteq {whole[j] : j \in DOMAIN whole}

C10_Witness ==
    /\ pc = "snippet_done" /\ snip # None
    /\ Len(Words(SnippetSource)) = 71
    /\ Len(Words(snip)) = 70
    /\ snip[Len(snip)] = "..."

\* C4: with no identifier from the search, both bodies are the "No new items
\* between {start} and {end}" message, no summary or metadata request is
\* sent, and the message dispatched is that one, with no item in it.
C4_EmptyRun ==
    (pmids = <<>> /\ pc \in {"send", "done"}) =>
        /\ TextOf(html_body) =
              <<"<p>No new items between ", "2024/03/08", " and ", "2024/03/15", ".</p>">>
        /\ TextOf(text_body) =
              <<"No new items between ", "2024/03/08", " and ", "2024/03/15", ".">>
        /\ \A i \in DOMAIN requests : requests[i].call = "esearch"
        /\ pc = "done" => sent.html = html_body /\ sent.text = text_body

C4_Witness ==
    /\ pc = "done" /\ pmids = <<>> /\ Len(requests) = 1
    /\ TextOf(sent.text) =
          <<"No new items between ", "2024/03/08", " and ", "2024/03/15", ".">>

\* C6: a call to the index that fails after its retries does not end the run
\* with an unhandled error.
C6_FetchFailureHandled ==
    failure \in {"esearch failed", "esummary failed", "efetch failed"} => pc # "crashed"

ExternalSlots ==
    {"title", "journal", "date", "doi", "url", "pmid", "label", "snippet", "abstract"}

\* C8: in the outputs of build_html and build_abstracts_page every field that
\* comes from the index is written HTML-escaped wherever it is embedded,
\* attribute values included.
C8_AllFieldsEscaped ==
    \A out \in {html_body, page} :
        \A i \in DOMAIN out :
            out[i].slot \in ExternalSlots => out[i].text = HtmlEscape(out[i].raw)
====
